---- MODULE Spec2Model ----
(***************************************************************************)
(* Model of the 2D transient heat conduction program: the mesh data model  *)
(* and builders of meshing.py and the explicit solver of analysis.py.      *)
(* Temperatures, lengths and times are exact rationals <<num, den>>.       *)
(***************************************************************************)
EXTENDS Integers, Sequences, FiniteSets, TLC

\* ------------------------------------------------------------------ bounds
MaxNx == 4
MaxNy == 3
MaxNz == 2
MaxTimeEnd == 2

\* time steps dt (s) conduct_heat_in_time_interval is called with
TimeSteps == {1, 2}

\* n_z of the meshes the script builds
Nz == 1

\* cell sizes <<L_x, L_y, L_z>> (mm) the builders are called with
CellSizes == {<<1, 1, 1>>, <<2, 1, 1>>}

\* temperatures (K) the builders are called with
Temps == {300, 400}

\* ------------------------------------------------------- exact arithmetic
Abs(a) == IF a < 0 THEN -a ELSE a

RECURSIVE GCD(_, _)
GCD(a, b) == IF b = 0 THEN a ELSE GCD(b, a % b)

\* the rational n/d in lowest terms with a positive denominator
Rat(n, d) ==
    LET g == GCD(Abs(n), Abs(d))
        s == IF d < 0 THEN -1 ELSE 1
    IN  <<(s * n) \div g, (s * d) \div g>>

Num(n) == <<n, 1>>

RAdd(a, b) ==
    LET g == GCD(a[2], b[2])
    IN  Rat(a[1] * (b[2] \div g) + b[1] * (a[2] \div g), (a[2] \div g) * b[2])

RNeg(a) == <<-a[1], a[2]>>

RSub(a, b) == RAdd(a, RNeg(b))

RMul(a, b) ==
    LET g1 == GCD(Abs(a[1]), b[2])
        g2 == GCD(Abs(b[1]), a[2])
    IN  Rat((a[1] \div g1) * (b[1] \div g2), (a[2] \div g2) * (b[2] \div g1))

\* a / b, b # 0
RDiv(a, b) == RMul(a, Rat(b[2], b[1]))

RLeq(a, b) ==
    LET g == GCD(a[2], b[2])
    IN  a[1] * (b[2] \div g) <= b[1] * (a[2] \div g)

RLess(a, b) == ~RLeq(b, a)

\* math.sqrt on the perfect squares that axis-aligned distances produce
Sqrt(n) == CHOOSE r \in 0..n : r * r <= n /\ (r + 1) * (r + 1) > n

\* -------------------------------------------------------------- materials
\* a material with constant properties and one whose conductivity depends
\* on temperature
Materials == {"constant", "varying"}

get_density_mtl(mtl) == Num(1000)

get_specific_heat_mtl(mtl, T) == Num(4000)

get_thermal_conductivity_mtl(mtl, T) ==
    IF mtl = "varying" /\ RLess(Num(350), T) THEN Num(2) ELSE Num(1)

\* ------------------------------------------------------------- meshing.py
\* the None that mesh.get_cell returns
None == [none |-> TRUE]

\* class cell, the fields the solver reads
cell(index, pos, size, mtl, temp, fixed) ==
    [index |-> index, pos |-> pos, mtl |-> mtl, T |-> temp, fixed |-> fixed]

get_T(c) == c.T

get_pos(c) == c.pos

\* is_fixed answering False for every cell
is_fixed_never(c) == FALSE

is_fixed(c) == c.fixed

get_spec_heat(c) == get_specific_heat_mtl(c.mtl, c.T)

get_density(c) == get_density_mtl(c.mtl)

get_thermal_conductivity(c) == get_thermal_conductivity_mtl(c.mtl, c.T)

\* class mesh
mesh_new(n_x, n_y, n_z, cells) ==
    [n_x |-> n_x, n_y |-> n_y, n_z |-> n_z, cells |-> cells]

\* Python list indexing lst[i]: 0-based, a negative i counts from the end,
\* anything else raises IndexError
IndexOK(lst, i) == -Len(lst) <= i /\ i < Len(lst)

Item(lst, i) == IF i >= 0 THEN lst[i + 1] ELSE lst[Len(lst) + i + 1]

\* mesh.get_cell: self.cells[index_z][index_y][index_x], None on any exception
get_cell(m, index_x, index_y, index_z) ==
    IF ~IndexOK(m.cells, index_z) THEN None
    ELSE LET plane == Item(m.cells, index_z) IN
         IF ~IndexOK(plane, index_y) THEN None
         ELSE LET row == Item(plane, index_y) IN
              IF ~IndexOK(row, index_x) THEN None
              ELSE Item(row, index_x)

\* the variant of create_equal_cell_mesh that tests the y edges first
create_equal_cell_mesh_yfirst(n_x, n_y, n_z, L_x, L_y, L_z, mtl, T_in, T_left, T_right, T_front, T_rear) ==
    mesh_new(n_x, n_y, n_z,
      [z \in 1..n_z |-> [y \in 1..n_y |-> [x \in 1..n_x |->
        LET x_i == x - 1
            y_i == y - 1
            z_i == z - 1
            new_cell_pos == <<L_x * x_i, L_y * y_i, L_z * z_i>>
            idx == <<x_i, y_i, z_i>>
            size == <<L_x, L_y, L_z>>
        IN  IF y_i = 0 THEN cell(idx, new_cell_pos, size, mtl, Num(T_front), TRUE)
            ELSE IF y_i = n_y - 1 THEN cell(idx, new_cell_pos, size, mtl, Num(T_rear), TRUE)
            ELSE IF x_i = 0 THEN cell(idx, new_cell_pos, size, mtl, Num(T_left), TRUE)
            ELSE IF x_i = n_x - 1 THEN cell(idx, new_cell_pos, size, mtl, Num(T_right), TRUE)
            ELSE cell(idx, new_cell_pos, size, mtl, Num(T_in), FALSE)]]])

create_equal_cell_mesh(n_x, n_y, n_z, L_x, L_y, L_z, mtl, T_in, T_left, T_right, T_front, T_rear) ==
    mesh_new(n_x, n_y, n_z,
      [z \in 1..n_z |-> [y \in 1..n_y |-> [x \in 1..n_x |->
        LET x_i == x - 1
            y_i == y - 1
            z_i == z - 1
            new_cell_pos == <<L_x * x_i, L_y * y_i, L_z * z_i>>
            idx == <<x_i, y_i, z_i>>
            size == <<L_x, L_y, L_z>>
        IN  IF x_i = 0 THEN cell(idx, new_cell_pos, size, mtl, Num(T_left), TRUE)
            ELSE IF x_i = n_x - 1 THEN cell(idx, new_cell_pos, size, mtl, Num(T_right), TRUE)
            ELSE IF y_i = 0 THEN cell(idx, new_cell_pos, size, mtl, Num(T_front), TRUE)
            ELSE IF y_i = n_y - 1 THEN cell(idx, new_cell_pos, size, mtl, Num(T_rear), TRUE)
            ELSE cell(idx, new_cell_pos, size, mtl, Num(T_in), FALSE)]]])

create_equal_cell_mesh_left_fixed(n_x, n_y, n_z, L_x, L_y, L_z, mtl, T_in, T_left) ==
    mesh_new(n_x, n_y, n_z,
      [z \in 1..n_z |-> [y \in 1..n_y |-> [x \in 1..n_x |->
        LET x_i == x - 1
            y_i == y - 1
            z_i == z - 1
            new_cell_pos == <<L_x * x_i, L_y * y_i, L_z * z_i>>
            idx == <<x_i, y_i, z_i>>
            size == <<L_x, L_y, L_z>>
        IN  IF x_i = 0 THEN cell(idx, new_cell_pos, size, mtl, Num(T_left), TRUE)
            ELSE cell(idx, new_cell_pos, size, mtl, Num(T_in), FALSE)]]])

\* ------------------------------------------------------------ analysis.py
\* dist(pos1, pos2)
dist(pos1, pos2) ==
    Sqrt((pos2[1] - pos1[1]) * (pos2[1] - pos1[1])
         + (pos2[2] - pos1[2]) * (pos2[2] - pos1[2])
         + (pos2[3] - pos1[3]) * (pos2[3] - pos1[3]))

\* the number of iterations of the three nested loops over the mesh
NumCells(m) ==
    IF Len(m.cells) = 0 THEN 0
    ELSE IF Len(m.cells[1]) = 0 THEN 0
    ELSE Len(m.cells) * Len(m.cells[1]) * Len(m.cells[1][1])

\* the loop indices <<x_i, y_i, z_i>> of the k-th iteration (k from 0)
LoopIndex(m, k) ==
    LET nx == Len(m.cells[1][1])
        ny == Len(m.cells[1])
    IN  <<k % nx, (k \div nx) % ny, k \div (nx * ny)>>

\* if cell_x: T_x = cell_x.get_T() else: T_x = T_c, with 0 on the else branch
NeighborT_zero(nb, T_c) == IF nb # None THEN get_T(nb) ELSE Num(0)

\* if cell_x: T_x = cell_x.get_T() else: T_x = T_c
NeighborT(nb, T_c) == IF nb # None THEN get_T(nb) ELSE T_c

\* the stencil without the factor 2 on T_c
StencilDelta_no2(alpha, T_left, T_right, T_front, T_rear, T_c, dx, dy, dt_) ==
    RMul(RMul(alpha,
              RAdd(RDiv(RAdd(RSub(T_left, T_c), T_right), RMul(dx, dx)),
                   RDiv(RAdd(RSub(T_front, T_c), T_rear), RMul(dy, dy)))),
         dt_)

\* the stencil reading the left neighbor on both sides
StencilDelta_leftTwice(alpha, T_left, T_right, T_front, T_rear, T_c, dx, dy, dt_) ==
    RMul(RMul(alpha,
              RAdd(RDiv(RAdd(RSub(T_left, RMul(Num(2), T_c)), T_left), RMul(dx, dx)),
                   RDiv(RAdd(RSub(T_front, RMul(Num(2), T_c)), T_rear), RMul(dy, dy)))),
         dt_)

\* dT = alpha * (((T_left - 2*T_c + T_right)/(dx**2)) + ((T_front - 2*T_c + T_rear)/(dy**2))) * dt
StencilDelta(alpha, T_left, T_right, T_front, T_rear, T_c, dx, dy, dt_) ==
    RMul(RMul(alpha,
              RAdd(RDiv(RAdd(RSub(T_left, RMul(Num(2), T_c)), T_right), RMul(dx, dx)),
                   RDiv(RAdd(RSub(T_front, RMul(Num(2), T_c)), T_rear), RMul(dy, dy)))),
         dt_)

\* one iteration of the loop body of conduct_differential_heat_on_mesh: the
\* locals it leaves, the dT it appends, or the exception it raises
Evaluate(m, x_i, y_i, z_i, dt_) ==
    LET c == get_cell(m, x_i, y_i, z_i) IN
    IF is_fixed(c)
    THEN [kind |-> "fixed", index |-> <<x_i, y_i, z_i>>, raised |-> "", dT |-> Num(0)]
    ELSE
      LET cell_left == get_cell(m, x_i - 1, y_i, z_i)
          cell_right == get_cell(m, x_i + 1, y_i, z_i)
          cell_front == get_cell(m, x_i, y_i - 1, z_i)
          cell_rear == get_cell(m, x_i, y_i + 1, z_i)
      IN
      IF cell_left = None \/ cell_front = None
      THEN [kind |-> "free", index |-> <<x_i, y_i, z_i>>, raised |-> "AttributeError",
            dT |-> Num(0)]
      ELSE
        LET dx == RMul(Num(dist(get_pos(c), get_pos(cell_left))), Rat(1, 1000))
            dy == RMul(Num(dist(get_pos(c), get_pos(cell_front))), Rat(1, 1000))
            T_c == get_T(c)
            T_left == NeighborT(cell_left, T_c)
            T_right == NeighborT(cell_right, T_c)
            T_front == NeighborT(cell_front, T_c)
            T_rear == NeighborT(cell_rear, T_c)
            k == get_thermal_conductivity(c)
            rho == get_density(c)
            spec_heat == get_spec_heat(c)
            alpha == RDiv(k, RMul(rho, spec_heat))
            zerodiv == dx[1] = 0 \/ dy[1] = 0
        IN  [kind |-> "free", index |-> <<x_i, y_i, z_i>>,
             raised |-> IF zerodiv THEN "ZeroDivisionError" ELSE "",
             left |-> cell_left.index,
             right |-> IF cell_right = None THEN <<>> ELSE cell_right.index,
             front |-> cell_front.index,
             rear |-> IF cell_rear = None THEN <<>> ELSE cell_rear.index,
             dx |-> dx, dy |-> dy, T_c |-> T_c,
             T_left |-> T_left, T_right |-> T_right,
             T_front |-> T_front, T_rear |-> T_rear, alpha |-> alpha,
             dT |-> IF zerodiv THEN Num(0)
                    ELSE StencilDelta(alpha, T_left, T_right, T_front, T_rear, T_c,
                                      dx, dy, dt_)]

\* cell.T += dT on the cell at loop index <<x_i, y_i, z_i>>
AddT(m, x_i, y_i, z_i, dT) ==
    [m EXCEPT !.cells[z_i + 1][y_i + 1][x_i + 1].T = RAdd(@, dT)]

\* ------------------------------------------------------------------ state
VARIABLES
    pc,        \* where the script is
    mesh,      \* the mesh object
    args,      \* the arguments the mesh was built with
    mesh0,     \* the mesh as the builder returned it
    time_end,  \* conduct_heat_in_time_interval: parameter
    dt,        \* conduct_heat_in_time_interval: parameter
    time,      \* conduct_heat_in_time_interval: local
    dTs,       \* the list of increments of the current step
    i,         \* position of the running loop over the cells
    loc,       \* locals of the last iteration of the compute loop
    snap,      \* the mesh as it was when the current step began
    nsteps,    \* completed compute-then-apply steps
    lookup     \* last probe of mesh.get_cell: <<ix, iy, iz, result>>

vars == <<pc, mesh, args, mesh0, time_end, dt, time, dTs, i, loc, snap, nsteps, lookup>>

NoMesh == mesh_new(0, 0, 0, <<>>)

NoLoc == [kind |-> "none"]

Init ==
    /\ pc = "init"
    /\ mesh = NoMesh
    /\ args = [builder |-> "none"]
    /\ mesh0 = NoMesh
    /\ time_end = 0
    /\ dt = 0
    /\ time = 0
    /\ dTs = <<>>
    /\ i = 0
    /\ loc = NoLoc
    /\ snap = NoMesh
    /\ nsteps = 0
    /\ lookup = <<>>

\* mesh = create_equal_cell_mesh(...)
BuildFourEdge ==
    /\ pc = "init"
    /\ \E n_x \in 1..MaxNx, n_y \in 1..MaxNy, L \in CellSizes, mtl \in Materials,
          T_in \in Temps, T_left \in Temps, T_right \in Temps,
          T_front \in Temps, T_rear \in Temps :
        /\ mesh' = create_equal_cell_mesh(n_x, n_y, Nz, L[1], L[2], L[3], mtl,
                                          T_in, T_left, T_right, T_front, T_rear)
        /\ args' = [builder |-> "four", n_x |-> n_x, n_y |-> n_y, n_z |-> Nz,
                    L_x |-> L[1], L_y |-> L[2], L_z |-> L[3], mtl |-> mtl, T_in |-> T_in,
                    T_left |-> T_left, T_right |-> T_right,
                    T_front |-> T_front, T_rear |-> T_rear]
    /\ mesh0' = mesh'
    /\ pc' = "built"
    /\ UNCHANGED <<time_end, dt, time, dTs, i, loc, snap, nsteps, lookup>>

\* mesh = create_equal_cell_mesh_left_fixed(...)
BuildLeftFixed ==
    /\ pc = "init"
    /\ \E n_x \in 1..MaxNx, n_y \in 1..MaxNy, L \in CellSizes, mtl \in Materials,
          T_in \in Temps, T_left \in Temps :
        /\ mesh' = create_equal_cell_mesh_left_fixed(n_x, n_y, Nz, L[1], L[2], L[3], mtl,
                                                     T_in, T_left)
        /\ args' = [builder |-> "left", n_x |-> n_x, n_y |-> n_y, n_z |-> Nz,
                    L_x |-> L[1], L_y |-> L[2], L_z |-> L[3], mtl |-> mtl, T_in |-> T_in,
                    T_left |-> T_left]
    /\ mesh0' = mesh'
    /\ pc' = "built"
    /\ UNCHANGED <<time_end, dt, time, dTs, i, loc, snap, nsteps, lookup>>

\* conduct_heat_in_time_interval(mesh, time_end, dt): entry, time = 0
Call ==
    /\ pc = "built"
    /\ \E te \in -1..MaxTimeEnd, d \in TimeSteps :
        /\ time_end' = te
        /\ dt' = d
    /\ time' = 0
    /\ pc' = "while"
    /\ UNCHANGED <<mesh, args, mesh0, dTs, i, loc, snap, nsteps, lookup>>

\* while time < time_end: true, enter conduct_differential_heat_on_mesh (dTs = [])
LoopEnter ==
    /\ pc = "while"
    /\ time < time_end
    /\ dTs' = <<>>
    /\ i' = 0
    /\ snap' = mesh
    /\ pc' = "compute"
    /\ UNCHANGED <<mesh, args, mesh0, time_end, dt, time, loc, nsteps, lookup>>

\* while time < time_end: false, the call returns
LoopExit ==
    /\ pc = "while"
    /\ ~(time < time_end)
    /\ pc' = "done"
    /\ UNCHANGED <<mesh, args, mesh0, time_end, dt, time, dTs, i, loc, snap, nsteps, lookup>>

\* the compute loop writing each cell's temperature as soon as its dT is known
ComputeCell_InPlace ==
    /\ pc = "compute"
    /\ i < NumCells(mesh)
    /\ LET ix == LoopIndex(mesh, i)
           ev == Evaluate(mesh, ix[1], ix[2], ix[3], Num(dt))
       IN  /\ loc' = ev
           /\ IF ev.raised # ""
              THEN /\ pc' = "crashed"
                   /\ UNCHANGED <<dTs, i, mesh>>
              ELSE /\ dTs' = Append(dTs, Num(0))
                   /\ mesh' = AddT(mesh, ix[1], ix[2], ix[3], ev.dT)
                   /\ i' = i + 1
                   /\ pc' = "compute"
    /\ UNCHANGED <<args, mesh0, time_end, dt, time, snap, nsteps, lookup>>

\* one iteration of the loops of conduct_differential_heat_on_mesh
ComputeCell ==
    /\ pc = "compute"
    /\ i < NumCells(mesh)
    /\ LET ix == LoopIndex(mesh, i)
           ev == Evaluate(mesh, ix[1], ix[2], ix[3], Num(dt))
       IN  /\ loc' = ev
           /\ IF ev.raised # ""
              THEN /\ pc' = "crashed"
                   /\ UNCHANGED <<dTs, i, mesh>>
              ELSE /\ dTs' = Append(dTs, ev.dT)
                   /\ i' = i + 1
                   /\ pc' = "compute"
                   /\ UNCHANGED mesh
    /\ UNCHANGED <<args, mesh0, time_end, dt, time, snap, nsteps, lookup>>

\* return dTs; i = 0
ComputeReturn ==
    /\ pc = "compute"
    /\ i = NumCells(mesh)
    /\ i' = 0
    /\ pc' = "apply"
    /\ UNCHANGED <<mesh, args, mesh0, time_end, dt, time, dTs, loc, snap, nsteps, lookup>>

\* cell.T += dTs[i]; i += 1
ApplyCell ==
    /\ pc = "apply"
    /\ i < NumCells(mesh)
    /\ LET ix == LoopIndex(mesh, i)
       IN  mesh' = AddT(mesh, ix[1], ix[2], ix[3], dTs[i + 1])
    /\ i' = i + 1
    /\ UNCHANGED <<pc, args, mesh0, time_end, dt, time, dTs, loc, snap, nsteps, lookup>>

\* time += dt
StepEnd ==
    /\ pc = "apply"
    /\ i = NumCells(mesh)
    /\ time' = time + dt
    /\ nsteps' = nsteps + 1
    /\ pc' = "while"
    /\ UNCHANGED <<mesh, args, mesh0, time_end, dt, dTs, i, loc, snap, lookup>>

Next ==
    \/ BuildFourEdge
    \/ BuildLeftFixed
    \/ Call
    \/ LoopEnter
    \/ LoopExit
    \/ ComputeCell
    \/ ComputeReturn
    \/ ApplyCell
    \/ StepEnd

Spec == Init /\ [][Next]_vars

\* ------------------------------------------------ probing mesh.get_cell
\* a mesh of every shape within the bounds, as a builder returns it
InitLookup ==
    /\ pc = "built"
    /\ \E n_x \in 1..MaxNx, n_y \in 1..MaxNy, n_z \in 1..MaxNz :
        /\ mesh = create_equal_cell_mesh_left_fixed(n_x, n_y, n_z, 1, 1, 1, "constant",
                                                    300, 400)
        /\ args = [builder |-> "left", n_x |-> n_x, n_y |-> n_y, n_z |-> n_z,
                   L_x |-> 1, L_y |-> 1, L_z |-> 1, mtl |-> "constant", T_in |-> 300,
                   T_left |-> 400]
    /\ mesh0 = mesh
    /\ time_end = 0
    /\ dt = 0
    /\ time = 0
    /\ dTs = <<>>
    /\ i = 0
    /\ loc = NoLoc
    /\ snap = NoMesh
    /\ nsteps = 0
    /\ lookup = <<>>

\* mesh.get_cell(ix, iy, iz) for indices inside, just outside and far outside
Probe ==
    /\ pc = "built"
    /\ \E ix \in (-(MaxNx + 1))..MaxNx, iy \in (-(MaxNy + 1))..MaxNy,
          iz \in (-(MaxNz + 1))..MaxNz :
        lookup' = <<ix, iy, iz, get_cell(mesh, ix, iy, iz)>>
    /\ UNCHANGED <<pc, mesh, args, mesh0, time_end, dt, time, dTs, i, loc, snap, nsteps>>

LookupSpec == InitLookup /\ [][Probe]_vars

\* ---------------------------------------------------------------- helpers
\* the grid indices of the mesh that was built
Grid == (0..(args.n_x - 1)) \X (0..(args.n_y - 1)) \X (0..(args.n_z - 1))

Built == pc # "init"

\* the cell object stored at grid index g of mesh m
At(m, g) == m.cells[g[3] + 1][g[2] + 1][g[1] + 1]

InGrid(g) ==
    /\ 0 <= g[1] /\ g[1] < args.n_x
    /\ 0 <= g[2] /\ g[2] < args.n_y
    /\ 0 <= g[3] /\ g[3] < args.n_z

Changed == \E g \in Grid : At(mesh, g).T # At(mesh0, g).T

\* ---------------------------------------------------------------- claims

\* C1: after every step of conduct_heat_in_time_interval, and when the call
\* has ended, every cell whose fixed flag is true has the temperature the
\* builder gave it, and no cell's flag has changed.
C1_BoundaryInvariance ==
    pc \in {"while", "done", "crashed"} => \A g \in Grid :
        /\ At(mesh, g).fixed = At(mesh0, g).fixed
        /\ At(mesh, g).fixed => At(mesh, g).T = At(mesh0, g).T

\* a run that completed a step in which some free cell changed temperature
\* beside a fixed cell
C1_Witness ==
    /\ pc = "done"
    /\ nsteps >= 1
    /\ Changed
    /\ \E g \in Grid : At(mesh, g).fixed

\* the increment the step that began at snap assigns to the k-th cell
SnapDelta(k) ==
    LET ix == LoopIndex(snap, k)
    IN  Evaluate(snap, ix[1], ix[2], ix[3], Num(dt)).dT

\* C2: during the compute phase the mesh is the one the step began with and
\* each increment, as it is computed, is the stencil of that snapshot; the
\* apply phase begins only with the increment of every cell computed from
\* the snapshot, and writes to each cell its snapshot temperature plus its
\* increment; so after the step each cell holds
\* snapshot + increment(snapshot), whatever the visiting order.
C2_TwoPhase ==
    /\ pc = "compute" =>
         /\ mesh = snap
         /\ Len(dTs) = i
         /\ i > 0 => dTs[i] = SnapDelta(i - 1)
    /\ pc = "apply" =>
         /\ Len(dTs) = NumCells(snap)
         /\ i = 0 => \A k \in 0..(NumCells(snap) - 1) : dTs[k + 1] = SnapDelta(k)
         /\ \A g \in Grid :
              LET k == (g[3] * args.n_y + g[2]) * args.n_x + g[1]
              IN  At(mesh, g).T = IF k < i THEN RAdd(At(snap, g).T, dTs[k + 1])
                                  ELSE At(snap, g).T
    /\ (pc \in {"while", "done"} /\ nsteps >= 1) =>
         \A k \in 0..(NumCells(snap) - 1) :
            At(mesh, LoopIndex(snap, k)).T =
               RAdd(At(snap, LoopIndex(snap, k)).T, SnapDelta(k))

\* the second step, half applied, with a cell already rewritten
C2_Witness ==
    /\ pc = "apply"
    /\ nsteps >= 1
    /\ 0 < i /\ i < NumCells(mesh)
    /\ \E k \in 0..(i - 1) :
         At(mesh, LoopIndex(snap, k)).T # At(snap, LoopIndex(snap, k)).T
    /\ \E k \in i..(NumCells(mesh) - 1) : dTs[k + 1] # Num(0)

\* C3: get_cell returns the cell stored at (ix, iy, iz) when the three
\* indices are in range and None when any of them is outside [0, n),
\* negative indices included.
C3_LookupContract ==
    lookup # <<>> =>
        LET q == <<lookup[1], lookup[2], lookup[3]>>
        IN  lookup[4] = IF InGrid(q) THEN At(mesh, q) ELSE None

HasFixed == \E g \in Grid : At(mesh0, g).fixed

BoundaryTemps == {At(mesh0, g).T : g \in {h \in Grid : At(mesh0, h).fixed}}

\* T is at least the lowest and at most the highest temperature of B
Within(B, T) == (\E b \in B : RLeq(b, T)) /\ (\E b \in B : RLeq(T, b))

\* alpha*dt/dx^2 and alpha*dt/dy^2 for the cell pitch and the material's
\* constant properties
Diffusivity ==
    RDiv(get_thermal_conductivity_mtl(args.mtl, Num(0)),
         RMul(get_density_mtl(args.mtl), get_specific_heat_mtl(args.mtl, Num(0))))

FourierX ==
    RDiv(RMul(Diffusivity, Num(dt)), RMul(Rat(args.L_x, 1000), Rat(args.L_x, 1000)))

FourierY ==
    RDiv(RMul(Diffusivity, Num(dt)), RMul(Rat(args.L_y, 1000), Rat(args.L_y, 1000)))

InitialFieldInRange ==
    /\ Built
    /\ HasFixed
    /\ args.mtl = "constant"
    /\ LET B == BoundaryTemps
       IN  \A g \in Grid : Within(B, At(mesh0, g).T)

FreeCellsInRange ==
    LET B == BoundaryTemps
    IN  \A g \in Grid : ~At(mesh, g).fixed => Within(B, At(mesh, g).T)

\* between two steps of conduct_heat_in_time_interval, or after the last
BetweenSteps == pc \in {"while", "done"}

\* C5 as stated: with the initial field inside the boundary range, constant
\* properties and alpha*dt/dx^2 <= 0.5, alpha*dt/dy^2 <= 0.5, after any
\* number of steps every free cell is inside the boundary range.
C5_NoNewExtrema_Stated ==
    (/\ BetweenSteps
     /\ RLeq(FourierX, Rat(1, 2))
     /\ RLeq(FourierY, Rat(1, 2))
     /\ InitialFieldInRange) => FreeCellsInRange

\* C5 amended: the same with alpha*dt/dx^2 + alpha*dt/dy^2 <= 0.5.
C5_NoNewExtrema ==
    (/\ BetweenSteps
     /\ RLeq(RAdd(FourierX, FourierY), Rat(1, 2))
     /\ InitialFieldInRange) => FreeCellsInRange

\* a stable run in which a free cell moved away from its initial temperature
C5_Witness ==
    /\ InitialFieldInRange
    /\ RLeq(RAdd(FourierX, FourierY), Rat(1, 2))
    /\ pc = "done"
    /\ nsteps >= 2
    /\ \E g \in Grid : ~At(mesh, g).fixed /\ At(mesh, g).T # At(mesh0, g).T

SymmetricSetup ==
    /\ Built
    /\ args.builder = "four"
    /\ args.T_left = args.T_right
    /\ args.T_front = args.T_rear
    /\ args.mtl = "constant"

C7_BuilderValidation ==
    Built => (args.n_x >= 2 /\ args.n_y >= 2 /\ args.n_z >= 2)

OnEdge(g) ==
    g[1] = 0 \/ g[1] = args.n_x - 1 \/ g[2] = 0 \/ g[2] = args.n_y - 1

\* C8: in the mesh create_equal_cell_mesh returns a cell is fixed iff it is
\* on one of the four edges; a fixed cell has T_left when ix = 0, else
\* T_right when ix = n_x-1, else T_front when iy = 0, else T_rear; every
\* other cell is free with T_in.
C8_FourEdgeClassification ==
    (pc = "built" /\ args.builder = "four") =>
        \A g \in Grid :
            /\ At(mesh, g).fixed <=> OnEdge(g)
            /\ At(mesh, g).T =
                 IF g[1] = 0 THEN Num(args.T_left)
                 ELSE IF g[1] = args.n_x - 1 THEN Num(args.T_right)
                 ELSE IF g[2] = 0 THEN Num(args.T_front)
                 ELSE IF g[2] = args.n_y - 1 THEN Num(args.T_rear)
                 ELSE Num(args.T_in)

\* a mesh just returned whose corners and edges can be told apart
C8_Witness ==
    /\ pc = "built"
    /\ args.builder = "four"
    /\ args.n_x >= 3
    /\ args.n_y >= 3
    /\ args.T_left # args.T_front
    /\ args.T_right # args.T_rear
    /\ args.T_in # args.T_front
    /\ mesh = mesh0

\* the smallest n >= 0 with n * d >= te
StepsNeeded(te, d) == IF te <= 0 THEN 0 ELSE (te + d - 1) \div d

\* C9: when the call has ended it has performed exactly the smallest n >= 0
\* with n*dt >= time_end steps, and none at all, leaving the mesh as built,
\* when time_end <= 0.
C9_StepCount ==
    pc \in {"done", "crashed"} =>
        /\ nsteps = StepsNeeded(time_end, dt)
        /\ time_end <= 0 => mesh = mesh0

\* C9, the runs that return: a call that returns has performed exactly
\* StepsNeeded(time_end, dt) steps.
C9_StepCountOnReturn ==
    pc = "done" =>
        /\ nsteps = StepsNeeded(time_end, dt)
        /\ time_end <= 0 => mesh = mesh0

\* C10: the left and front neighbors of an evaluated free cell are the
\* cells at (ix-1, iy, iz) and (ix, iy-1, iz), and dx = L_x * 1e-3,
\* dy = L_y * 1e-3, neither zero.
C10_StencilSpacing ==
    (/\ loc.kind = "free"
     /\ loc.raised # "AttributeError"
     /\ args.n_x >= 2
     /\ args.n_y >= 2) =>
        /\ loc.left = <<loc.index[1] - 1, loc.index[2], loc.index[3]>>
        /\ loc.front = <<loc.index[1], loc.index[2] - 1, loc.index[3]>>
        /\ loc.dx = Rat(args.L_x, 1000)
        /\ loc.dy = Rat(args.L_y, 1000)
        /\ loc.dx[1] # 0
        /\ loc.dy[1] # 0

====
